---- MODULE Spec2Model ----
(***************************************************************************)
(* Field transforms of dev/src/field-value.ts: the FieldValue factories,   *)
(* the two sentinels, and the five FieldTransform classes with their       *)
(* classification flags, validate, toProto and isEqual.                    *)
(*                                                                         *)
(* A reference is an index into heap.  JavaScript values are tagged        *)
(* records; a number keeps its sign apart from its magnitude so that -0    *)
(* and NaN are values of their own.                                        *)
(***************************************************************************)
EXTENDS Integers, Sequences, FiniteSets, TLC

VARIABLES heap, last

vars == <<heap, last>>

\* Most transforms a run constructs besides the two sentinels.
MaxObjects == 2

\* Most arguments of one factory call.
MaxArgs == 2

(***************************************************************************)
(* JavaScript values                                                       *)
(***************************************************************************)
Num(neg, mag) == [t |-> "number", nan |-> FALSE, neg |-> neg, mag |-> mag]

NaN == [t |-> "number", nan |-> TRUE, neg |-> FALSE, mag |-> 0]

PosZero == Num(FALSE, 0)

NegZero == Num(TRUE, 0)

One == Num(FALSE, 1)

Two == Num(FALSE, 2)

StrX == [t |-> "string", s |-> "x"]

Undefined == [t |-> "undefined"]

Arr(items) == [t |-> "array", items |-> items]

Ref(r) == [t |-> "object", ref |-> r]

\* All argument lists of at most n values of S.
SeqsUpTo(n, S) == UNION {[1..k -> S] : k \in 0..n}

\* The === operator.  Two array values are two array literals, hence two
\* objects; a transform is the same object exactly when the reference is.
StrictEquals(a, b) ==
  IF a.t # b.t THEN FALSE
  ELSE CASE a.t = "number" ->
              /\ ~a.nan
              /\ ~b.nan
              /\ a.mag = b.mag
              /\ (a.mag = 0 \/ a.neg = b.neg)
         [] a.t = "string" -> a.s = b.s
         [] a.t = "undefined" -> TRUE
         [] a.t = "array" -> FALSE
         [] a.t = "object" -> a.ref = b.ref

(***************************************************************************)
(* The classes                                                             *)
(***************************************************************************)
DeleteTransform == [kind |-> "DeleteTransform"]

ServerTimestampTransform == [kind |-> "ServerTimestampTransform"]

NumericIncrementTransform(operand) ==
  [kind |-> "NumericIncrementTransform", operand |-> operand]

ArrayUnionTransform(elements) ==
  [kind |-> "ArrayUnionTransform", elements |-> elements]

ArrayRemoveTransform(elements) ==
  [kind |-> "ArrayRemoveTransform", elements |-> elements]

\* The static initialisers run once, in class order, when the module loads.
DELETE_SENTINEL == 1

SERVER_TIMESTAMP_SENTINEL == 2

Init ==
  /\ heap = <<DeleteTransform, ServerTimestampTransform>>
  /\ last = [op |-> "load"]

(***************************************************************************)
(* Collaborators imported from ./validate, ./serializer and                *)
(* fast-deep-equal.  An outcome is a normal return or a throw.             *)
(***************************************************************************)
Returned == [threw |-> FALSE]

Threw(error) == [threw |-> TRUE, error |-> error]

\* validate.ts: throws when fewer than minSize arguments were passed.
validateMinNumberOfArguments(funcName, args, minSize) ==
  IF Len(args) < minSize
    THEN Threw([name |-> "ArgumentError", funcName |-> funcName,
                minSize |-> minSize])
    ELSE Returned

\* validate.ts: the head of a validation message, "Element at index <arg>
\* is not a valid <expectedType>."
invalidArgumentMessage(arg, expectedType) ==
  [arg |-> arg, expectedType |-> expectedType]

\* validate.ts: throws unless value is a number other than NaN.
validateNumber(arg, value) ==
  IF value.t # "number" \/ value.nan
    THEN Threw([name |-> "ValidationError",
                message |-> invalidArgumentMessage(arg, "number")])
    ELSE Returned

\* serializer.ts: at level 0 with allowDeletes 'none' and allowTransforms
\* false every sentinel or transform is rejected, and undefined is
\* rejected unless options.allowUndefined.
validateUserInput(arg, value, desc, options, path, level, inArray) ==
  IF \/ value.t = "object"
     \/ (value.t = "undefined" /\ ~options.allowUndefined)
    THEN Threw([name |-> "ValidationError",
                message |-> invalidArgumentMessage(arg, desc)])
    ELSE Returned

\* fast-deep-equal.  Objects are compared by constructor and then by own
\* properties; the last line makes NaN equal to NaN.
RECURSIVE deepEqual(_, _, _)
deepEqual(h, a, b) ==
  IF StrictEquals(a, b) THEN TRUE
  ELSE IF a.t \in {"array", "object"} /\ b.t \in {"array", "object"}
    THEN IF a.t # b.t THEN FALSE
         ELSE IF a.t = "array"
           THEN /\ Len(a.items) = Len(b.items)
                /\ \A i \in 1..Len(a.items) :
                     deepEqual(h, a.items[i], b.items[i])
           ELSE /\ h[a.ref].kind = h[b.ref].kind
                /\ CASE h[a.ref].kind = "NumericIncrementTransform" ->
                          deepEqual(h, h[a.ref].operand, h[b.ref].operand)
                     [] h[a.ref].kind \in {"ArrayUnionTransform",
                                           "ArrayRemoveTransform"} ->
                          deepEqual(h, Arr(h[a.ref].elements),
                                    Arr(h[b.ref].elements))
                     [] OTHER -> TRUE
  ELSE a.t = "number" /\ b.t = "number" /\ a.nan /\ b.nan

\* The encoder's results: a Value message, null, or a throw.
Null == [null |-> TRUE]

\* Array.prototype.filter over a sequence.
RECURSIVE NonNull(_)
NonNull(s) ==
  IF s = <<>> THEN <<>>
  ELSE IF Head(s) = Null THEN NonNull(Tail(s))
       ELSE <<Head(s)>> \o NonNull(Tail(s))

\* serializer.ts, Serializer.encodeValue: a safe integer other than -0
\* becomes an integerValue and any other number a doubleValue; a transform
\* encodes to null; undefined encodes to null when the serializer ignores
\* undefined properties and is refused otherwise; an array becomes an
\* arrayValue of its non-null encoded elements.
RECURSIVE encodeValue(_, _)
encodeValue(serializer, val) ==
  CASE val.t = "object" -> [threw |-> FALSE, value |-> Null]
    [] val.t = "string" ->
         [threw |-> FALSE, value |-> [stringValue |-> val.s]]
    [] val.t = "number" ->
         IF ~val.nan /\ ~(val.neg /\ val.mag = 0)
           THEN [threw |-> FALSE,
                 value |-> [integerValue |->
                              IF val.neg THEN 0 - val.mag ELSE val.mag]]
           ELSE [threw |-> FALSE, value |-> [doubleValue |-> val]]
    [] val.t = "array" ->
         LET enc == [i \in 1..Len(val.items) |->
                       encodeValue(serializer, val.items[i])]
         IN IF \E i \in 1..Len(enc) : enc[i].threw
              THEN Threw([name |-> "Error", message |-> "Cannot encode value"])
              ELSE [threw |-> FALSE,
                    value |-> [arrayValue |->
                      [values |-> NonNull([i \in 1..Len(enc) |->
                                             enc[i].value])]]]
    [] val.t = "undefined" ->
         IF serializer.allowUndefined
           THEN [threw |-> FALSE, value |-> Null]
           ELSE Threw([name |-> "Error", message |-> "Cannot encode value"])

(***************************************************************************)
(* FieldValue.isEqual, inherited by the two sentinels                      *)
(***************************************************************************)
FieldValue_isEqual(h, this, other) == this = other

(***************************************************************************)
(* DeleteTransform                                                         *)
(***************************************************************************)
DeleteTransform_includeInDocumentMask == TRUE

\* A faulty getter: deletes listed among the document transforms.
DeleteTransform_includeInDocumentTransform_true == TRUE

DeleteTransform_includeInDocumentTransform == FALSE

DeleteTransform_methodName == "FieldValue.delete"

DeleteTransform_validate(this, allowUndefined) ==
  [threw |-> FALSE, delegated |-> <<>>]

\* A faulty toProto: a delete encoded as an instruction without content.
DeleteTransform_toProto_silent(this, serializer, fieldPath) ==
  [threw |-> FALSE, ret |-> [fieldPath |-> fieldPath.formattedName],
   calls |-> <<>>]

DeleteTransform_toProto(this, serializer, fieldPath) ==
  [threw |-> TRUE,
   error |-> [name |-> "Error",
              message |-> "FieldValue.delete() should not be included in a FieldTransform"],
   calls |-> <<>>]

(***************************************************************************)
(* ServerTimestampTransform                                                *)
(***************************************************************************)
ServerTimestampTransform_includeInDocumentMask == FALSE

ServerTimestampTransform_includeInDocumentTransform == TRUE

ServerTimestampTransform_methodName == "FieldValue.serverTimestamp"

ServerTimestampTransform_validate(this, allowUndefined) ==
  [threw |-> FALSE, delegated |-> <<>>]

ServerTimestampTransform_toProto(this, serializer, fieldPath) ==
  [threw |-> FALSE,
   ret |-> [fieldPath |-> fieldPath.formattedName,
            setToServerValue |-> "REQUEST_TIME"],
   calls |-> <<>>]

(***************************************************************************)
(* NumericIncrementTransform                                               *)
(***************************************************************************)
NumericIncrementTransform_includeInDocumentMask == FALSE

NumericIncrementTransform_includeInDocumentTransform == TRUE

NumericIncrementTransform_methodName == "FieldValue.increment"

\* A faulty validate: the operand is not checked.
NumericIncrementTransform_validate_unchecked(this, allowUndefined) ==
  [threw |-> FALSE, delegated |-> <<>>]

NumericIncrementTransform_validate(this, allowUndefined) ==
  LET r == validateNumber("FieldValue.increment()", this.operand)
  IN IF r.threw
       THEN [threw |-> TRUE, error |-> r.error, delegated |-> <<>>]
       ELSE [threw |-> FALSE, delegated |-> <<>>]

\* A faulty toProto: the server-timestamp instruction for an increment.
NumericIncrementTransform_toProto_wrongKey(this, serializer, fieldPath) ==
  [threw |-> FALSE,
   ret |-> [fieldPath |-> fieldPath.formattedName,
            setToServerValue |-> "REQUEST_TIME"],
   calls |-> <<>>]

NumericIncrementTransform_toProto(this, serializer, fieldPath) ==
  LET encodedOperand == encodeValue(serializer, this.operand)
  IN IF encodedOperand.threw
       THEN [threw |-> TRUE, error |-> encodedOperand.error,
             calls |-> <<this.operand>>]
       ELSE [threw |-> FALSE,
             ret |-> [fieldPath |-> fieldPath.formattedName,
                      increment |-> encodedOperand.value],
             calls |-> <<this.operand>>]

\* A faulty isEqual: identity only, as inherited from FieldValue.
NumericIncrementTransform_isEqual_identity(h, this, other) == this = other

NumericIncrementTransform_isEqual(h, this, other) ==
  \/ this = other
  \/ /\ h[other].kind = "NumericIncrementTransform"
     /\ StrictEquals(h[this].operand, h[other].operand)

(***************************************************************************)
(* validateArrayElement and the validate loop of the two array classes     *)
(***************************************************************************)
\* A faulty validateArrayElement: no Array.isArray test, every element goes
\* to validateUserInput.
validateArrayElement_unguarded(arg, value, allowUndefined) ==
  LET r == validateUserInput(arg, value, "array element",
             [allowDeletes |-> "none", allowTransforms |-> FALSE,
              allowUndefined |-> allowUndefined], Undefined, 0, TRUE)
  IN IF r.threw
       THEN [threw |-> TRUE, error |-> r.error, delegated |-> <<arg>>]
       ELSE [threw |-> FALSE, delegated |-> <<arg>>]

validateArrayElement(arg, value, allowUndefined) ==
  IF value.t = "array"
    THEN [threw |-> TRUE,
          error |-> [name |-> "ValidationError",
                     message |-> invalidArgumentMessage(arg, "array element"),
                     detail |-> "Nested arrays are not supported."],
          delegated |-> <<>>]
    ELSE LET r == validateUserInput(arg, value, "array element",
                    [allowDeletes |-> "none", allowTransforms |-> FALSE,
                     allowUndefined |-> allowUndefined], Undefined, 0, TRUE)
         IN IF r.threw
              THEN [threw |-> TRUE, error |-> r.error, delegated |-> <<arg>>]
              ELSE [threw |-> FALSE, delegated |-> <<arg>>]

\* for (let i = ...; i < elements.length; ++i) validateArrayElement(...),
\* entered at index i with the indices already handed to validateUserInput.
RECURSIVE ValidateLoop(_, _, _, _)
ValidateLoop(elements, i, allowUndefined, delegated) ==
  IF ~(i < Len(elements))
    THEN [threw |-> FALSE, delegated |-> delegated]
    ELSE LET r == validateArrayElement(i, elements[i + 1], allowUndefined)
         IN IF r.threw
              THEN [threw |-> TRUE, error |-> r.error,
                    delegated |-> delegated \o r.delegated]
              ELSE ValidateLoop(elements, i + 1, allowUndefined,
                                delegated \o r.delegated)

(***************************************************************************)
(* ArrayUnionTransform                                                     *)
(***************************************************************************)
ArrayUnionTransform_includeInDocumentMask == FALSE

ArrayUnionTransform_includeInDocumentTransform == TRUE

ArrayUnionTransform_methodName == "FieldValue.arrayUnion"

ArrayUnionTransform_validate(this, allowUndefined) ==
  ValidateLoop(this.elements, 0, allowUndefined, <<>>)

\* A faulty toProto: the instruction of arrayRemove for an arrayUnion.
ArrayUnionTransform_toProto_remove(this, serializer, fieldPath) ==
  LET encoded == encodeValue(serializer, Arr(this.elements))
  IN IF encoded.threw
       THEN [threw |-> TRUE, error |-> encoded.error,
             calls |-> <<Arr(this.elements)>>]
       ELSE [threw |-> FALSE,
             ret |-> [fieldPath |-> fieldPath.formattedName,
                      removeAllFromArray |-> encoded.value.arrayValue],
             calls |-> <<Arr(this.elements)>>]

ArrayUnionTransform_toProto(this, serializer, fieldPath) ==
  LET encoded == encodeValue(serializer, Arr(this.elements))
  IN IF encoded.threw
       THEN [threw |-> TRUE, error |-> encoded.error,
             calls |-> <<Arr(this.elements)>>]
       ELSE [threw |-> FALSE,
             ret |-> [fieldPath |-> fieldPath.formattedName,
                      appendMissingElements |-> encoded.value.arrayValue],
             calls |-> <<Arr(this.elements)>>]

\* A faulty isEqual: the element lists compared without their order.
ArrayUnionTransform_isEqual_unordered(h, this, other) ==
  \/ this = other
  \/ /\ h[other].kind = "ArrayUnionTransform"
     /\ {h[this].elements[i] : i \in 1..Len(h[this].elements)} =
          {h[other].elements[i] : i \in 1..Len(h[other].elements)}

ArrayUnionTransform_isEqual(h, this, other) ==
  \/ this = other
  \/ /\ h[other].kind = "ArrayUnionTransform"
     /\ deepEqual(h, Arr(h[this].elements), Arr(h[other].elements))

(***************************************************************************)
(* ArrayRemoveTransform                                                    *)
(***************************************************************************)
ArrayRemoveTransform_includeInDocumentMask == FALSE

ArrayRemoveTransform_includeInDocumentTransform == TRUE

ArrayRemoveTransform_methodName == "FieldValue.arrayRemove"

ArrayRemoveTransform_validate(this, allowUndefined) ==
  ValidateLoop(this.elements, 0, allowUndefined, <<>>)

ArrayRemoveTransform_toProto(this, serializer, fieldPath) ==
  LET encoded == encodeValue(serializer, Arr(this.elements))
  IN IF encoded.threw
       THEN [threw |-> TRUE, error |-> encoded.error,
             calls |-> <<Arr(this.elements)>>]
       ELSE [threw |-> FALSE,
             ret |-> [fieldPath |-> fieldPath.formattedName,
                      removeAllFromArray |-> encoded.value.arrayValue],
             calls |-> <<Arr(this.elements)>>]

ArrayRemoveTransform_isEqual(h, this, other) ==
  \/ this = other
  \/ /\ h[other].kind = "ArrayRemoveTransform"
     /\ deepEqual(h, Arr(h[this].elements), Arr(h[other].elements))

(***************************************************************************)
(* Method dispatch on the class of the receiver                            *)
(***************************************************************************)
includeInDocumentMask(this) ==
  CASE this.kind = "DeleteTransform" -> DeleteTransform_includeInDocumentMask
    [] this.kind = "ServerTimestampTransform" ->
         ServerTimestampTransform_includeInDocumentMask
    [] this.kind = "NumericIncrementTransform" ->
         NumericIncrementTransform_includeInDocumentMask
    [] this.kind = "ArrayUnionTransform" ->
         ArrayUnionTransform_includeInDocumentMask
    [] this.kind = "ArrayRemoveTransform" ->
         ArrayRemoveTransform_includeInDocumentMask

includeInDocumentTransform(this) ==
  CASE this.kind = "DeleteTransform" ->
         DeleteTransform_includeInDocumentTransform
    [] this.kind = "ServerTimestampTransform" ->
         ServerTimestampTransform_includeInDocumentTransform
    [] this.kind = "NumericIncrementTransform" ->
         NumericIncrementTransform_includeInDocumentTransform
    [] this.kind = "ArrayUnionTransform" ->
         ArrayUnionTransform_includeInDocumentTransform
    [] this.kind = "ArrayRemoveTransform" ->
         ArrayRemoveTransform_includeInDocumentTransform

methodName(this) ==
  CASE this.kind = "DeleteTransform" -> DeleteTransform_methodName
    [] this.kind = "ServerTimestampTransform" ->
         ServerTimestampTransform_methodName
    [] this.kind = "NumericIncrementTransform" ->
         NumericIncrementTransform_methodName
    [] this.kind = "ArrayUnionTransform" -> ArrayUnionTransform_methodName
    [] this.kind = "ArrayRemoveTransform" -> ArrayRemoveTransform_methodName

validate(this, allowUndefined) ==
  CASE this.kind = "DeleteTransform" ->
         DeleteTransform_validate(this, allowUndefined)
    [] this.kind = "ServerTimestampTransform" ->
         ServerTimestampTransform_validate(this, allowUndefined)
    [] this.kind = "NumericIncrementTransform" ->
         NumericIncrementTransform_validate(this, allowUndefined)
    [] this.kind = "ArrayUnionTransform" ->
         ArrayUnionTransform_validate(this, allowUndefined)
    [] this.kind = "ArrayRemoveTransform" ->
         ArrayRemoveTransform_validate(this, allowUndefined)

toProto(this, serializer, fieldPath) ==
  CASE this.kind = "DeleteTransform" ->
         DeleteTransform_toProto(this, serializer, fieldPath)
    [] this.kind = "ServerTimestampTransform" ->
         ServerTimestampTransform_toProto(this, serializer, fieldPath)
    [] this.kind = "NumericIncrementTransform" ->
         NumericIncrementTransform_toProto(this, serializer, fieldPath)
    [] this.kind = "ArrayUnionTransform" ->
         ArrayUnionTransform_toProto(this, serializer, fieldPath)
    [] this.kind = "ArrayRemoveTransform" ->
         ArrayRemoveTransform_toProto(this, serializer, fieldPath)

isEqual(h, this, other) ==
  CASE h[this].kind = "NumericIncrementTransform" ->
         NumericIncrementTransform_isEqual(h, this, other)
    [] h[this].kind = "ArrayUnionTransform" ->
         ArrayUnionTransform_isEqual(h, this, other)
    [] h[this].kind = "ArrayRemoveTransform" ->
         ArrayRemoveTransform_isEqual(h, this, other)
    [] OTHER -> FieldValue_isEqual(h, this, other)

(***************************************************************************)
(* The static factories of FieldValue.  A call either throws and leaves    *)
(* the heap alone, or returns a reference.                                 *)
(***************************************************************************)
\* A faulty delete(): a new DeleteTransform at every call.
FieldValue_delete_fresh ==
  /\ Len(heap) < 2 + MaxObjects
  /\ heap' = Append(heap, DeleteTransform)
  /\ last' = [op |-> "delete", threw |-> FALSE, ret |-> Len(heap) + 1]

FieldValue_delete ==
  /\ last' = [op |-> "delete", threw |-> FALSE, ret |-> DELETE_SENTINEL]
  /\ UNCHANGED heap

FieldValue_serverTimestamp ==
  /\ last' = [op |-> "serverTimestamp", threw |-> FALSE,
              ret |-> SERVER_TIMESTAMP_SENTINEL]
  /\ UNCHANGED heap

\* A faulty increment(): the operand is validated at construction.
FieldValue_increment_eager(args) ==
  LET v == validateMinNumberOfArguments("FieldValue.increment", args, 1)
  IN IF v.threw \/ validateNumber("FieldValue.increment()", args[1]).threw
       THEN /\ last' = [op |-> "increment", args |-> args, threw |-> TRUE,
                        error |-> [name |-> "ArgumentError"]]
            /\ UNCHANGED heap
       ELSE /\ Len(heap) < 2 + MaxObjects
            /\ heap' = Append(heap, NumericIncrementTransform(args[1]))
            /\ last' = [op |-> "increment", args |-> args, threw |-> FALSE,
                        ret |-> Len(heap) + 1]

FieldValue_increment(args) ==
  LET v == validateMinNumberOfArguments("FieldValue.increment", args, 1)
  IN IF v.threw
       THEN /\ last' = [op |-> "increment", args |-> args, threw |-> TRUE,
                        error |-> v.error]
            /\ UNCHANGED heap
       ELSE /\ Len(heap) < 2 + MaxObjects
            /\ heap' = Append(heap, NumericIncrementTransform(args[1]))
            /\ last' = [op |-> "increment", args |-> args, threw |-> FALSE,
                        ret |-> Len(heap) + 1]

FieldValue_arrayUnion(elements) ==
  LET v == validateMinNumberOfArguments("FieldValue.arrayUnion", elements, 1)
  IN IF v.threw
       THEN /\ last' = [op |-> "arrayUnion", args |-> elements,
                        threw |-> TRUE, error |-> v.error]
            /\ UNCHANGED heap
       ELSE /\ Len(heap) < 2 + MaxObjects
            /\ heap' = Append(heap, ArrayUnionTransform(elements))
            /\ last' = [op |-> "arrayUnion", args |-> elements,
                        threw |-> FALSE, ret |-> Len(heap) + 1]

FieldValue_arrayRemove(elements) ==
  LET v == validateMinNumberOfArguments("FieldValue.arrayRemove", elements, 1)
  IN IF v.threw
       THEN /\ last' = [op |-> "arrayRemove", args |-> elements,
                        threw |-> TRUE, error |-> v.error]
            /\ UNCHANGED heap
       ELSE /\ Len(heap) < 2 + MaxObjects
            /\ heap' = Append(heap, ArrayRemoveTransform(elements))
            /\ last' = [op |-> "arrayRemove", args |-> elements,
                        threw |-> FALSE, ret |-> Len(heap) + 1]

(***************************************************************************)
(* Calls of the instance methods by the caller and the write pipeline      *)
(***************************************************************************)
Call_isEqual(this, other) ==
  /\ last' = [op |-> "isEqual", this |-> this, other |-> other,
              threw |-> FALSE, ret |-> isEqual(heap, this, other)]
  /\ UNCHANGED heap

Call_flags(this) ==
  /\ last' = [op |-> "flags", this |-> this, threw |-> FALSE,
              includeInDocumentMask |-> includeInDocumentMask(heap[this]),
              includeInDocumentTransform |->
                includeInDocumentTransform(heap[this]),
              methodName |-> methodName(heap[this])]
  /\ UNCHANGED heap

Call_validate(this, allowUndefined) ==
  /\ last' = [op |-> "validate", this |-> this,
              allowUndefined |-> allowUndefined,
              out |-> validate(heap[this], allowUndefined)]
  /\ UNCHANGED heap

Call_toProto(this, serializer, fieldPath) ==
  /\ last' = [op |-> "toProto", this |-> this, serializer |-> serializer,
              fieldPath |-> fieldPath,
              out |-> toProto(heap[this], serializer, fieldPath)]
  /\ UNCHANGED heap

(***************************************************************************)
(* Inputs                                                                  *)
(***************************************************************************)
Refs == 1..Len(heap)

Serializers == {[allowUndefined |-> FALSE], [allowUndefined |-> TRUE]}

FieldPaths == {[formattedName |-> "count"], [formattedName |-> "tags"]}

\* Any kind of argument: a number, a string, a nested array, a transform.
AnyValues == {One, StrX, Arr(<<One>>), Ref(DELETE_SENTINEL)}

\* Calls with no argument, with several, and with one of any kind.
FactoryArgs == SeqsUpTo(MaxArgs, {One}) \cup {<<v>> : v \in AnyValues}

\* All five factories, and the methods every value answers.
Next ==
  \/ FieldValue_delete
  \/ FieldValue_serverTimestamp
  \/ \E args \in FactoryArgs : FieldValue_increment(args)
  \/ \E args \in FactoryArgs : FieldValue_arrayUnion(args)
  \/ \E args \in FactoryArgs : FieldValue_arrayRemove(args)
  \/ \E this \in Refs, other \in Refs : Call_isEqual(this, other)
  \/ \E this \in Refs : Call_flags(this)

Spec == Init /\ [][Next]_vars

\* Operands of increment: both zeros, integers, NaN, a string, undefined.
IncrementOperands == {PosZero, NegZero, One, Two, NaN, StrX, Undefined}

\* Increments beside the sentinels and one array transform.
NextIncrement ==
  \/ \E n \in IncrementOperands : FieldValue_increment(<<n>>)
  \/ FieldValue_arrayUnion(<<One>>)
  \/ \E this \in Refs, other \in Refs : Call_isEqual(this, other)
  \/ \E this \in Refs, allowUndefined \in BOOLEAN :
       Call_validate(this, allowUndefined)
  \/ \E this \in Refs, s \in Serializers, p \in FieldPaths :
       Call_toProto(this, s, p)

SpecIncrement == Init /\ [][NextIncrement]_vars

\* Element lists that differ only inside a nested array.
DeepLists == {<<Arr(<<One, Two>>)>>, <<Arr(<<Two, One>>)>>}

\* Array transforms of both kinds, compared.
NextArrayEq ==
  \/ \E args \in SeqsUpTo(MaxArgs, {One, Two}) \cup DeepLists :
       FieldValue_arrayUnion(args)
  \/ \E args \in {<<One, Two>>} \cup DeepLists : FieldValue_arrayRemove(args)
  \/ \E this \in Refs, other \in Refs : Call_isEqual(this, other)

SpecArrayEq == Init /\ [][NextArrayEq]_vars

\* Array transforms of both kinds, validated and encoded: elements that
\* are nested arrays, undefined, a transform or a plain string.
NextArrayVal ==
  \/ \E args \in SeqsUpTo(MaxArgs, {Arr(<<One>>), Undefined})
                   \cup {<<StrX, Arr(<<One>>)>>} :
       FieldValue_arrayUnion(args)
  \/ \E args \in {<<StrX>>,
                  <<Ref(SERVER_TIMESTAMP_SENTINEL), Arr(<<One>>)>>} :
       FieldValue_arrayRemove(args)
  \/ \E this \in Refs, allowUndefined \in BOOLEAN :
       Call_validate(this, allowUndefined)
  \/ \E this \in Refs, s \in Serializers, p \in FieldPaths :
       Call_toProto(this, s, p)

SpecArrayVal == Init /\ [][NextArrayVal]_vars

(***************************************************************************)
(* Properties                                                              *)
(***************************************************************************)
Kind(r) == heap[r].kind

IsArrayKind(k) == k \in {"ArrayUnionTransform", "ArrayRemoveTransform"}

\* C1: every delete() returns the one Delete instance and every
\* serverTimestamp() the one ServerTimestamp instance, whatever factory
\* calls came before; no other instance of either class exists; isEqual is
\* true between two references to the same sentinel and false between the
\* Delete and the ServerTimestamp sentinel, in both directions.
C1_SentinelsAreSingletons ==
  /\ last.op = "delete" => ~last.threw /\ last.ret = DELETE_SENTINEL
  /\ last.op = "serverTimestamp" =>
       ~last.threw /\ last.ret = SERVER_TIMESTAMP_SENTINEL
  /\ \A r \in Refs :
       /\ Kind(r) = "DeleteTransform" <=> r = DELETE_SENTINEL
       /\ Kind(r) = "ServerTimestampTransform" <=>
            r = SERVER_TIMESTAMP_SENTINEL
  /\ last.op = "isEqual" =>
       /\ Kind(last.this) = "DeleteTransform"
            /\ Kind(last.other) = "DeleteTransform" => last.ret
       /\ Kind(last.this) = "ServerTimestampTransform"
            /\ Kind(last.other) = "ServerTimestampTransform" => last.ret
       /\ Kind(last.this) = "DeleteTransform"
            /\ Kind(last.other) = "ServerTimestampTransform" => ~last.ret
       /\ Kind(last.this) = "ServerTimestampTransform"
            /\ Kind(last.other) = "DeleteTransform" => ~last.ret

\* A delete() after the run has constructed all the transforms it may.
C1_Witness ==
  /\ last.op = "delete"
  /\ last.ret = DELETE_SENTINEL
  /\ Len(heap) = 2 + MaxObjects

\* C6: increment, arrayUnion and arrayRemove throw exactly when called
\* with no argument, and then return nothing; with at least one argument
\* of any type they return a reference to a transform that did not exist
\* before, holding the first argument (increment) or all the arguments in
\* order (arrayUnion, arrayRemove).
C6_ConstructionFailsOnlyWithoutArguments ==
  /\ [](last.op \in {"increment", "arrayUnion", "arrayRemove"} =>
          /\ last.threw <=> Len(last.args) = 0
          /\ last.threw =>
               last.error.name = "ArgumentError" /\ "ret" \notin DOMAIN last
          /\ ~last.threw =>
               /\ last.ret = Len(heap)
               /\ last.ret \notin {DELETE_SENTINEL, SERVER_TIMESTAMP_SENTINEL}
               /\ heap[last.ret] =
                    CASE last.op = "increment" ->
                           NumericIncrementTransform(last.args[1])
                      [] last.op = "arrayUnion" ->
                           ArrayUnionTransform(last.args)
                      [] last.op = "arrayRemove" ->
                           ArrayRemoveTransform(last.args))
  /\ [][last'.op \in {"increment", "arrayUnion", "arrayRemove"} =>
          IF last'.threw
            THEN heap' = heap
            ELSE /\ Len(heap') = Len(heap) + 1
                 /\ last'.ret \notin Refs
                 /\ \A r \in Refs : heap'[r] = heap[r]]_vars

\* increment("x") has returned a transform holding the string.
C6_Witness ==
  /\ last.op = "increment"
  /\ last.args = <<StrX>>
  /\ ~last.threw
  /\ heap[last.ret] = NumericIncrementTransform(StrX)

\* The flags of an object, read through its class.
Flags(o) == <<includeInDocumentMask(o), includeInDocumentTransform(o)>>

\* C10: Delete is in the mask and not in the transform list; the other four
\* kinds are in the transform list and not in the mask; so exactly one flag
\* is true for every transform, each read of the flags returns these
\* values, and no step changes the flags of an existing instance.
C10_FlagsFixedPerKind ==
  /\ [](/\ \A r \in Refs :
             /\ includeInDocumentMask(heap[r]) = (Kind(r) = "DeleteTransform")
             /\ includeInDocumentTransform(heap[r]) =
                  (Kind(r) # "DeleteTransform")
             /\ includeInDocumentMask(heap[r]) #
                  includeInDocumentTransform(heap[r])
        /\ last.op = "flags" =>
             /\ last.includeInDocumentMask =
                  (Kind(last.this) = "DeleteTransform")
             /\ last.includeInDocumentTransform =
                  (Kind(last.this) # "DeleteTransform"))
  /\ [][heap' # heap =>
         \A r \in Refs : Flags(heap'[r]) = Flags(heap[r])]_vars

\* The flags of the Delete sentinel read once transforms of other kinds exist.
C10_Witness ==
  /\ last.op = "flags"
  /\ last.this = DELETE_SENTINEL
  /\ last.includeInDocumentMask
  /\ ~last.includeInDocumentTransform
  /\ \E r \in Refs : Kind(r) = "ArrayRemoveTransform"

\* The path string an instruction carries.
FieldPathOf(p) == p.formattedName

\* C3: for every field path the ServerTimestamp sentinel encodes to
\* {fieldPath, setToServerValue: "REQUEST_TIME"} and hands nothing to the
\* encoder; an increment hands its operand, and only that, to the encoder
\* and encodes to {fieldPath, increment: <the encoder's result>}, or throws
\* what the encoder throws.  The result depends on the transform, the path
\* and the encoder alone.
C3_TimestampAndIncrementInstructions ==
  last.op = "toProto" =>
    /\ Kind(last.this) = "ServerTimestampTransform" =>
         /\ ~last.out.threw
         /\ last.out.calls = <<>>
         /\ last.out.ret = [fieldPath |-> FieldPathOf(last.fieldPath),
                            setToServerValue |-> "REQUEST_TIME"]
    /\ Kind(last.this) = "NumericIncrementTransform" =>
         LET e == encodeValue(last.serializer, heap[last.this].operand)
         IN /\ last.out.calls = <<heap[last.this].operand>>
            /\ last.out.threw = e.threw
            /\ ~e.threw =>
                 last.out.ret = [fieldPath |-> FieldPathOf(last.fieldPath),
                                 increment |-> e.value]

\* increment(2) encoded against the path "count".
C3_Witness ==
  /\ last.op = "toProto"
  /\ heap[last.this] = NumericIncrementTransform(Two)
  /\ last.fieldPath.formattedName = "count"
  /\ ~last.out.threw
  /\ last.out.ret = [fieldPath |-> "count", increment |-> [integerValue |-> 2]]

\* C4: toProto on the Delete sentinel throws for every serializer and
\* field path, in every state, without calling the encoder and without
\* returning an instruction; validate on it returns normally for both
\* values of allowUndefined.
C4_DeleteNeverEncodes ==
  /\ \A s \in Serializers, p \in FieldPaths :
       LET out == toProto(heap[DELETE_SENTINEL], s, p)
       IN out.threw /\ "ret" \notin DOMAIN out /\ out.calls = <<>>
  /\ \A allowUndefined \in BOOLEAN :
       ~validate(heap[DELETE_SENTINEL], allowUndefined).threw
  /\ last.op = "toProto" /\ Kind(last.this) = "DeleteTransform" =>
       last.out.threw /\ "ret" \notin DOMAIN last.out
  /\ last.op = "validate" /\ Kind(last.this) = "DeleteTransform" =>
       ~last.out.threw

\* toProto called on the Delete sentinel after transforms were constructed.
C4_Witness ==
  /\ last.op = "toProto"
  /\ last.this = DELETE_SENTINEL
  /\ last.out.threw
  /\ Len(heap) > 2

\* C7: increment(x) returns a transform for every operand x, numeric or
\* not; validate on an increment throws a validation error when the
\* operand is not of type number and returns normally when it is a number
\* other than NaN; validate changes no transform.
C7_IncrementValidatedLate ==
  /\ [](/\ last.op = "increment" /\ Len(last.args) > 0 =>
             /\ ~last.threw
             /\ heap[last.ret] = NumericIncrementTransform(last.args[1])
        /\ last.op = "validate"
             /\ Kind(last.this) = "NumericIncrementTransform" =>
             LET n == heap[last.this].operand
             IN /\ n.t # "number" =>
                     /\ last.out.threw
                     /\ last.out.error.name = "ValidationError"
                /\ n.t = "number" /\ ~n.nan => ~last.out.threw)
  /\ [][last'.op = "validate" => heap' = heap]_vars

\* validate has thrown on a transform built by increment("x").
C7_Witness ==
  /\ last.op = "validate"
  /\ heap[last.this] = NumericIncrementTransform(StrX)
  /\ last.out.threw

\* The number a numeric value stands for; -0 and 0 stand for the same.
SignedValue(n) == IF n.neg THEN 0 - n.mag ELSE n.mag

\* Equality of operands in the host: numbers by the number they stand for,
\* NaN equal to nothing, a string or undefined by value.
HostEquals(a, b) ==
  IF a.t = "number" /\ b.t = "number"
    THEN ~a.nan /\ ~b.nan /\ SignedValue(a) = SignedValue(b)
    ELSE a = b

\* C9: two increments constructed apart are isEqual exactly when their
\* operands are equal in the host, so increment(1) equals increment(1),
\* increment(0) equals increment(-0) and increment(1) differs from
\* increment(2); isEqual gives the same answer with receiver and argument
\* exchanged; an increment is not equal to a transform of another kind, in
\* either direction.
C9_IncrementEquality ==
  last.op = "isEqual"
    /\ "NumericIncrementTransform" \in {Kind(last.this), Kind(last.other)} =>
    /\ Kind(last.this) # Kind(last.other) => ~last.ret
    /\ Kind(last.this) = Kind(last.other) /\ last.this # last.other =>
         last.ret = HostEquals(heap[last.this].operand,
                               heap[last.other].operand)
    /\ last.ret = isEqual(heap, last.other, last.this)

\* increment(0) compared with a separately constructed increment(-0).
C9_Witness ==
  /\ last.op = "isEqual"
  /\ last.this # last.other
  /\ heap[last.this] = NumericIncrementTransform(PosZero)
  /\ heap[last.other] = NumericIncrementTransform(NegZero)
  /\ last.ret

\* C8: two array transforms constructed apart are isEqual exactly when
\* they are of the same class and their element lists have the same length
\* and structurally equal values at every position; so arrayUnion(1,2)
\* equals another arrayUnion(1,2) and equals neither arrayUnion(2,1) nor
\* arrayRemove(1,2).
C8_ArrayEquality ==
  last.op = "isEqual"
    /\ IsArrayKind(Kind(last.this))
    /\ IsArrayKind(Kind(last.other))
    /\ last.this # last.other =>
    LET a == heap[last.this].elements
        b == heap[last.other].elements
    IN last.ret = (/\ Kind(last.this) = Kind(last.other)
                   /\ Len(a) = Len(b)
                   /\ \A i \in 1..Len(a) : a[i] = b[i])

\* arrayUnion(1,2) compared with arrayUnion(2,1), found different.
C8_Witness ==
  /\ last.op = "isEqual"
  /\ heap[last.this] = ArrayUnionTransform(<<One, Two>>)
  /\ heap[last.other] = ArrayUnionTransform(<<Two, One>>)
  /\ ~last.ret

\* Whether validateArrayElement refuses value v.
Refused(v, allowUndefined) ==
  \/ v.t = "array"
  \/ validateUserInput(0, v, "array element",
       [allowDeletes |-> "none", allowTransforms |-> FALSE,
        allowUndefined |-> allowUndefined], Undefined, 0, TRUE).threw

\* C5: arrayUnion and arrayRemove return a transform also when an element
\* is an array; validate throws exactly when some element is refused, and
\* then for the refused element of least index, after handing every
\* earlier element, in ascending order, to validateUserInput; when that
\* element is an array the error names its index and says that nested
\* arrays are not supported, whatever allowUndefined, and the element is
\* not handed to validateUserInput.
C5_NestedArrayRejectedAtValidate ==
  /\ last.op \in {"arrayUnion", "arrayRemove"} /\ Len(last.args) > 0 =>
       ~last.threw /\ heap[last.ret].elements = last.args
  /\ last.op = "validate" /\ IsArrayKind(Kind(last.this)) =>
       LET els == heap[last.this].elements
           refused == {i \in 0..(Len(els) - 1) :
                         Refused(els[i + 1], last.allowUndefined)}
       IN /\ last.out.threw <=> refused # {}
          /\ refused = {} =>
               last.out.delegated = [i \in 1..Len(els) |-> i - 1]
          /\ refused # {} =>
               LET f == CHOOSE i \in refused : \A j \in refused : i <= j
               IN /\ last.out.error.name = "ValidationError"
                  /\ last.out.error.message =
                       [arg |-> f, expectedType |-> "array element"]
                  /\ els[f + 1].t = "array" =>
                       /\ last.out.error.detail =
                            "Nested arrays are not supported."
                       /\ last.out.delegated = [i \in 1..f |-> i - 1]
                  /\ els[f + 1].t # "array" =>
                       last.out.delegated = [i \in 1..(f + 1) |-> i - 1]

\* validate(true) on arrayUnion(undefined, [1]): index 0 passes the input
\* validator and index 1 is refused as a nested array.
C5_Witness ==
  /\ last.op = "validate"
  /\ last.allowUndefined
  /\ heap[last.this] = ArrayUnionTransform(<<Undefined, Arr(<<One>>)>>)
  /\ last.out.threw
  /\ last.out.error.message.arg = 1
  /\ last.out.error.detail = "Nested arrays are not supported."
  /\ last.out.delegated = <<0>>

\* C2 as stated: the instruction of an array transform carries the
\* encoder's result for the element list itself.
C2_InstructionCarriesEncoderResult ==
  last.op = "toProto" /\ IsArrayKind(Kind(last.this)) =>
    LET e == encodeValue(last.serializer, Arr(heap[last.this].elements))
    IN ~e.threw =>
         /\ ~last.out.threw
         /\ Kind(last.this) = "ArrayUnionTransform" =>
              last.out.ret = [fieldPath |-> FieldPathOf(last.fieldPath),
                              appendMissingElements |-> e.value]
         /\ Kind(last.this) = "ArrayRemoveTransform" =>
              last.out.ret = [fieldPath |-> FieldPathOf(last.fieldPath),
                              removeAllFromArray |-> e.value]

\* C2: an array transform hands its whole element list, in construction
\* order, to the encoder once; an ArrayUnion encodes to {fieldPath,
\* appendMissingElements: v} and an ArrayRemove to {fieldPath,
\* removeAllFromArray: v}, where v is the arrayValue member of the
\* encoder's result, and to nothing else; it throws what the encoder
\* throws.
C2_InstructionCarriesArrayValue ==
  last.op = "toProto" /\ IsArrayKind(Kind(last.this)) =>
    LET e == encodeValue(last.serializer, Arr(heap[last.this].elements))
    IN /\ last.out.calls = <<Arr(heap[last.this].elements)>>
       /\ last.out.threw = e.threw
       /\ ~e.threw =>
            /\ Kind(last.this) = "ArrayUnionTransform" =>
                 last.out.ret = [fieldPath |-> FieldPathOf(last.fieldPath),
                                 appendMissingElements |-> e.value.arrayValue]
            /\ Kind(last.this) = "ArrayRemoveTransform" =>
                 last.out.ret = [fieldPath |-> FieldPathOf(last.fieldPath),
                                 removeAllFromArray |-> e.value.arrayValue]

\* arrayRemove("x") encoded against the path "tags".
C2_Witness ==
  /\ last.op = "toProto"
  /\ heap[last.this] = ArrayRemoveTransform(<<StrX>>)
  /\ last.fieldPath.formattedName = "tags"
  /\ ~last.out.threw
  /\ last.out.ret = [fieldPath |-> "tags",
                     removeAllFromArray |->
                       [values |-> <<[stringValue |-> "x"]>>]]

====
